---- MODULE Spec2Model ----
(***************************************************************************)
(* Model of rust/src/api/tantivy_api.rs: a process-wide search engine      *)
(* instance (STATE) guarded by a mutex, holding an index, a mutex-guarded  *)
(* index writer and a manually reloaded index reader.  Concurrent callers  *)
(* run the public functions of the file; each function is split into the   *)
(* statements that touch shared state.                                     *)
(***************************************************************************)
EXTENDS Integers, Sequences, FiniteSets, TLC

VARIABLES
    meta,         \* meta[d]: the schema in the meta.json of directory d, or NoMeta
    stored,       \* stored[d]: documents of the last committed generation at d
    initialized,  \* STATE holds Some(api)
    dir,          \* directory of the index held by the api
    staged,       \* operations the writer has accepted and not yet committed
    gen,          \* number of commits published since the index was opened
    readerGen,    \* generation the reader's searcher was loaded from
    readerSnap,   \* documents of the generation the reader's searcher sees
    stateLock,    \* thread holding STATE's mutex, or Poisoned once a holder panicked
    writerLock,   \* thread holding api.writer's mutex
    pc,           \* per thread: the statement it executes next
    op,           \* per thread: the call in progress (or the last call)
    idx,          \* per thread: position in the batch loop
    res,          \* per thread: what the call in progress is about to return
    \* History of the calls, written by the observers below and read by the
    \* properties only:
    lastAdd,      \* the document of the add_document that committed last, no write call made since
    deleted,      \* identifiers a delete_document committed, no add committed since
    orphans,      \* positions in staged written by a batch call that failed while staging
    before,       \* at the return of a commit that succeeded: the documents before it
    batch,        \* at the return of a commit that succeeded: the operations it published
    stagedBy,     \* stagedBy[n]: the thread that staged staged[n] (batch[n] after a commit)
    log           \* log[g + 1]: the documents generation g was published with

history == <<lastAdd, deleted, orphans, before, batch, stagedBy, log>>
vars == <<meta, stored, initialized, dir, staged, gen, readerGen, readerSnap,
          stateLock, writerLock, pc, op, idx, res, history>>

(* ------------------------------ bounds --------------------------------- *)
MaxGen == 1       \* generations published by one caller's calls
MaxConcGen == 2   \* generations published by concurrent callers' calls
MaxStaged == 4    \* operations in the writer's staging buffer
MaxBatch == 2     \* items of a batch
MaxK == 2         \* top_k of a search

(* ------------------------------ values --------------------------------- *)
Threads == {"t1", "t2"}
NoThread == "none"
Poisoned == "poisoned"
Dirs == {"d1", "d2"}
NoDir == "nodir"
Ids == {"a", "b"}
Texts == {"hello", "hello world"}
Queries == {"hello", "world", "nosuch:hello"}

\* A persisted schema: the options of the fields named "id" and "text"
\* (Absent when the schema has no field of that name).
Absent == "absent"
FieldOptions == {Absent, "STRING | STORED", "TEXT | STORED", "STRING", "TEXT"}
Schemas == [id : FieldOptions, text : FieldOptions]
NoMeta == [id |-> "nometa", text |-> "nometa"]
\* schema_builder.add_text_field("id", STRING | STORED); ("text", TEXT | STORED)
BuiltSchema == [id |-> "STRING | STORED", text |-> "TEXT | STORED"]

Document(i, t) == [id |-> i, text |-> t]
NoDoc == Document("", "")
Docs == {Document(i, t) : i \in Ids, t \in Texts}

RECURSIVE SeqsUpTo(_, _)
SeqsUpTo(S, n) ==
    IF n = 0 THEN {<<>>}
    ELSE LET shorter == SeqsUpTo(S, n - 1)
         IN shorter \cup {Append(s, x) : s \in {q \in shorter : Len(q) = n - 1}, x \in S}

(* ----------------------- the library's index --------------------------- *)
\* Operations the writer buffers: a delete by identifier term, or an add.
DelOp(i) == [kind |-> "del", id |-> i, text |-> ""]
AddOp(d) == [kind |-> "add", id |-> d.id, text |-> d.text]

\* IndexWriter::delete_term: always accepted.
delete_term(buf, i) == Append(buf, DelOp(i))

\* IndexWriter::add_document, when it is accepted.
writer_add_document(buf, d) == Append(buf, AddOp(d))

\* Mutant: a delete removes every document, whatever its identifier.
ApplyOpDeletesAll(content, o) ==
    IF o.kind = "del"
    THEN <<>>
    ELSE Append(content, Document(o.id, o.text))

\* A delete removes every document with that identifier stamped before it;
\* an add appends one document.
ApplyOp(content, o) ==
    IF o.kind = "del"
    THEN SelectSeq(content, LAMBDA d : d.id # o.id)
    ELSE Append(content, Document(o.id, o.text))

\* Mutant: the deletes of a commit apply to the documents it adds as well,
\* whatever the order they were staged in.
ApplyOpsDeletesLast(content, ops) ==
    LET adds == SelectSeq(ops, LAMBDA o : o.kind = "add")
        added == [n \in 1..Len(adds) |-> Document(adds[n].id, adds[n].text)]
    IN SelectSeq(content \o added,
                 LAMBDA d : \A n \in 1..Len(ops) : ~(ops[n].kind = "del" /\ ops[n].id = d.id))

\* Mutant: the deletes of a commit apply to the documents committed before
\* only, never to the documents it adds.
ApplyOpsDeletesFirst(content, ops) ==
    LET adds == SelectSeq(ops, LAMBDA o : o.kind = "add")
        added == [n \in 1..Len(adds) |-> Document(adds[n].id, adds[n].text)]
    IN SelectSeq(content,
                 LAMBDA d : \A n \in 1..Len(ops) : ~(ops[n].kind = "del" /\ ops[n].id = d.id))
       \o added

RECURSIVE ApplyOps(_, _)
ApplyOps(content, ops) ==
    IF ops = <<>> THEN content
    ELSE ApplyOps(ApplyOp(content, Head(ops)), Tail(ops))

\* The default tokenizer of a TEXT field: lowercase terms split on
\* non-alphanumeric characters.
Terms(text) ==
    CASE text = "hello" -> {"hello"}
      [] text = "hello world" -> {"hello", "world"}
      [] OTHER -> {}

\* QueryParser::parse_query over the text field: a query naming a field the
\* schema does not have is an error.
ParseOk(q) == q # "nosuch:hello"
QueryTerms(q) ==
    CASE q = "hello" -> {"hello"}
      [] q = "world" -> {"world"}
      [] OTHER -> {}

SeqRange(s) == {s[i] : i \in 1..Len(s)}
Matching(content, q) == {i \in 1..Len(content) : Terms(content[i].text) \cap QueryTerms(q) # {}}
WithId(content, i) == {n \in 1..Len(content) : content[n].id = i}
Min(x, y) == IF x < y THEN x ELSE y

(* ------------------------------ calls ---------------------------------- *)
Call(name, d, ds, is, q, k) ==
    [name |-> name, dir |-> d, docs |-> ds, ids |-> is, query |-> q, k |-> k]
NoCall == Call("none", NoDir, <<>>, <<>>, "", 0)

Calls ==
         {Call("init_tantivy", d, <<>>, <<>>, "", 0) : d \in Dirs}
    \cup {Call(n, NoDir, <<d>>, <<>>, "", 0) :
            n \in {"add_document", "update_document", "add_document_no_commit"}, d \in Docs}
    \cup {Call(n, NoDir, <<>>, <<i>>, "", 0) :
            n \in {"delete_document", "delete_document_no_commit", "get_document_by_id"}, i \in Ids}
    \cup {Call("add_documents_batch", NoDir, ds, <<>>, "", 0) : ds \in SeqsUpTo(Docs, MaxBatch)}
    \cup {Call("delete_documents_batch", NoDir, <<>>, is, "", 0) : is \in SeqsUpTo(Ids, MaxBatch)}
    \cup {Call("commit", NoDir, <<>>, <<>>, "", 0)}
    \cup {Call("search_documents", NoDir, <<>>, <<>>, q, k) : q \in Queries, k \in 1..MaxK}

AddNames == {"add_document", "update_document", "add_document_no_commit", "add_documents_batch"}
DeleteNames == {"delete_document", "delete_document_no_commit", "delete_documents_batch"}
CommitNames == {"add_document", "update_document", "delete_document",
                "add_documents_batch", "delete_documents_batch", "commit"}
WriteNames == AddNames \cup DeleteNames \cup {"commit"}
ReadNames == {"search_documents", "get_document_by_id"}

\* Results: Ok(value) or Err(message).
Ok(v) == [ok |-> TRUE, err |-> "", val |-> v]
Err(m) == [ok |-> FALSE, err |-> m, val |-> {}]
NoRes == [ok |-> FALSE, err |-> "no call", val |-> {}]

\* The function panics: it unwinds, dropping its guards, and the caller gets
\* the panic instead of a Result.
Panic(m) == [ok |-> FALSE, err |-> m, val |-> {}]
PanicMessages == {"panic: Limit must be strictly greater than 0", "panic: PoisonError"}
Panicked(r) == r.err \in PanicMessages

\* How many operations a call stages, and how many commits it makes.
Stages(c) ==
    IF c.name \in AddNames THEN 2 * Len(c.docs)
    ELSE IF c.name \in DeleteNames THEN Len(c.ids) ELSE 0
InFlight == {t \in Threads : pc[t] # "idle"}

RECURSIVE SumOver(_, _)
SumOver(S, f) ==
    IF S = {} THEN 0
    ELSE LET x == CHOOSE y \in S : TRUE IN f[x] + SumOver(S \ {x}, f)

(* ------------------------------ state ---------------------------------- *)
\* Before the first call: no instance, both mutexes free.  Directory d1
\* holds an index an earlier run of this program committed two documents
\* to; directory d2 holds none.
InitWith(schema) ==
    /\ meta = [d \in Dirs |-> IF d = "d1" THEN schema ELSE NoMeta]
    /\ stored = [d \in Dirs |-> IF d = "d1"
                                 THEN <<Document("a", "hello"), Document("b", "hello world")>>
                                 ELSE <<>>]
    /\ initialized = FALSE
    /\ dir = NoDir
    /\ staged = <<>>
    /\ gen = 0
    /\ readerGen = 0
    /\ readerSnap = <<>>
    /\ stateLock = NoThread
    /\ writerLock = NoThread
    /\ pc = [t \in Threads |-> "idle"]
    /\ op = [t \in Threads |-> NoCall]
    /\ idx = [t \in Threads |-> 0]
    /\ res = [t \in Threads |-> NoRes]
    /\ lastAdd = NoDoc
    /\ deleted = {}
    /\ orphans = {}
    /\ before = <<>>
    /\ batch = <<>>
    /\ stagedBy = <<>>
    /\ log = <<>>

Init == InitWith(BuiltSchema)

\* The committed documents of the open index.
Published == IF initialized THEN stored[dir] ELSE <<>>

\* Mutant: lock() returns whether or not the mutex is held.
MutexFreeAlways(owner) == TRUE

\* Mutex::lock returns only when no thread holds the mutex.
MutexFree(owner) == owner = NoThread

\* The function has its result (Ok(..), or the error a `?` propagates) and
\* is about to leave; the guards it holds are still alive.
Finish(t, r) ==
    /\ res' = [res EXCEPT ![t] = r]
    /\ pc' = [pc EXCEPT ![t] = "return"]
    /\ idx' = [idx EXCEPT ![t] = 0]
    /\ UNCHANGED <<stateLock, writerLock>>

\* Going on to the statement at label, the loop variable at n.
Goto(t, label, n) ==
    /\ pc' = [pc EXCEPT ![t] = label]
    /\ idx' = [idx EXCEPT ![t] = n]
    /\ UNCHANGED <<res, stateLock, writerLock>>

\* A caller enters one of the public functions.  The bounds: the calls under
\* way and this one stage at most MaxStaged operations in all, and no write
\* call is made once they may have published g generations.
Invoke(t, c, g) ==
    /\ pc[t] = "idle"
    /\ Len(staged) + SumOver(InFlight, [u \in Threads |-> Stages(op[u])]) + Stages(c) <= MaxStaged
    /\ c.name \in WriteNames =>
          gen + Cardinality({u \in InFlight : op[u].name \in CommitNames}) < g
    /\ op' = [op EXCEPT ![t] = c]
    /\ pc' = [pc EXCEPT ![t] = "lock_state"]
    /\ res' = [res EXCEPT ![t] = NoRes]
    /\ UNCHANGED <<meta, stored, initialized, dir, staged, gen, readerGen, readerSnap,
                   stateLock, writerLock, idx>>

\* Mutant: init_tantivy goes on without STATE's mutex.
LockStateNotForInit(t) ==
    /\ pc[t] = "lock_state"
    /\ IF op[t].name = "init_tantivy"
       THEN stateLock' = stateLock /\ pc' = [pc EXCEPT ![t] = "init_check"]
       ELSE /\ MutexFree(stateLock)
            /\ stateLock' = t
            /\ pc' = [pc EXCEPT ![t] = "as_ref"]
    /\ UNCHANGED <<meta, stored, initialized, dir, staged, gen, readerGen, readerSnap,
                   writerLock, op, idx, res>>

\* let state_lock = STATE.lock().unwrap();
LockState(t) ==
    /\ pc[t] = "lock_state"
    /\ MutexFree(stateLock)
    /\ stateLock' = t
    /\ pc' = [pc EXCEPT ![t] = IF op[t].name = "init_tantivy" THEN "init_check" ELSE "as_ref"]
    /\ UNCHANGED <<meta, stored, initialized, dir, staged, gen, readerGen, readerSnap,
                   writerLock, op, idx, res>>

\* STATE.lock().unwrap() on a poisoned mutex panics.
LockStatePoisoned(t) ==
    /\ pc[t] = "lock_state"
    /\ stateLock = Poisoned
    /\ Finish(t, Panic("panic: PoisonError"))
    /\ UNCHANGED <<meta, stored, initialized, dir, staged, gen, readerGen, readerSnap, op>>

\* Mutant: without an instance the function returns Ok and does nothing.
AsRefSilent(t) ==
    /\ pc[t] = "as_ref"
    /\ IF ~initialized
       THEN Finish(t, Ok({}))
       ELSE Goto(t, CASE op[t].name \in WriteNames -> "lock_writer"
                      [] op[t].name = "search_documents" -> "reload"
                      [] OTHER -> "lookup", 0)
    /\ UNCHANGED <<meta, stored, initialized, dir, staged, gen, readerGen, readerSnap, op>>

\* let api = state_lock.as_ref().ok_or_else(|| anyhow!("Tantivy not initialized"))?;
AsRef(t) ==
    /\ pc[t] = "as_ref"
    /\ IF ~initialized
       THEN Finish(t, Err("Tantivy not initialized"))
       ELSE Goto(t, CASE op[t].name \in WriteNames -> "lock_writer"
                      [] op[t].name = "search_documents" -> "reload"
                      [] OTHER -> "lookup", 0)
    /\ UNCHANGED <<meta, stored, initialized, dir, staged, gen, readerGen, readerSnap, op>>

\* The statement after the writer lock is taken, and after each staged item.
FirstWrite(c) ==
    CASE c.name = "commit" -> "commit"
      [] c.name = "add_documents_batch" /\ c.docs = <<>> -> "commit"
      [] c.name = "delete_documents_batch" /\ c.ids = <<>> -> "commit"
      [] OTHER -> "delete_term"

\* let mut writer = api.writer.lock().unwrap();
LockWriter(t) ==
    /\ pc[t] = "lock_writer"
    /\ MutexFree(writerLock)
    /\ writerLock' = t
    /\ pc' = [pc EXCEPT ![t] = FirstWrite(op[t])]
    /\ idx' = [idx EXCEPT ![t] = IF FirstWrite(op[t]) = "commit" THEN 0 ELSE 1]
    /\ UNCHANGED <<meta, stored, initialized, dir, staged, gen, readerGen, readerSnap,
                   stateLock, op, res>>

\* The identifier the current loop item (or the single argument) names.
CurId(t) == IF op[t].name \in AddNames THEN op[t].docs[idx[t]].id ELSE op[t].ids[idx[t]]

\* Mutant: the adds stage no delete of the identifier first.
DeleteTermNotForAdds(t) ==
    /\ pc[t] = "delete_term"
    /\ staged' = IF op[t].name \in AddNames THEN staged ELSE delete_term(staged, CurId(t))
    /\ CASE op[t].name \in AddNames -> Goto(t, "add_document", idx[t])
         [] op[t].name = "delete_document" -> Goto(t, "commit", idx[t])
         [] op[t].name = "delete_document_no_commit" -> Finish(t, Ok({}))
         [] OTHER -> Goto(t, IF idx[t] < Len(op[t].ids) THEN "delete_term" ELSE "commit",
                         idx[t] + 1)
    /\ UNCHANGED <<meta, stored, initialized, dir, gen, readerGen, readerSnap, op>>

\* writer.delete_term(id_term);
DeleteTerm(t) ==
    /\ pc[t] = "delete_term"
    /\ staged' = delete_term(staged, CurId(t))
    /\ CASE op[t].name \in AddNames -> Goto(t, "add_document", idx[t])
         [] op[t].name = "delete_document" -> Goto(t, "commit", idx[t])
         [] op[t].name = "delete_document_no_commit" -> Finish(t, Ok({}))
         [] OTHER -> Goto(t, IF idx[t] < Len(op[t].ids) THEN "delete_term" ELSE "commit",
                         idx[t] + 1)
    /\ UNCHANGED <<meta, stored, initialized, dir, gen, readerGen, readerSnap, op>>

\* Mutant: add_document_no_commit goes on to commit, as add_document does.
AddDocumentOkCommitting(t) ==
    /\ pc[t] = "add_document"
    /\ staged' = writer_add_document(staged, op[t].docs[idx[t]])
    /\ CASE op[t].name \in {"add_document", "update_document", "add_document_no_commit"} ->
              Goto(t, "commit", idx[t])
         [] OTHER -> Goto(t, IF idx[t] < Len(op[t].docs) THEN "delete_term" ELSE "commit",
                         idx[t] + 1)
    /\ UNCHANGED <<meta, stored, initialized, dir, gen, readerGen, readerSnap, op>>

\* writer.add_document(tantivy_doc)?;  the writer accepts the document
AddDocumentOk(t) ==
    /\ pc[t] = "add_document"
    /\ staged' = writer_add_document(staged, op[t].docs[idx[t]])
    /\ CASE op[t].name \in {"add_document", "update_document"} -> Goto(t, "commit", idx[t])
         [] op[t].name = "add_document_no_commit" -> Finish(t, Ok({}))
         [] OTHER -> Goto(t, IF idx[t] < Len(op[t].docs) THEN "delete_term" ELSE "commit",
                         idx[t] + 1)
    /\ UNCHANGED <<meta, stored, initialized, dir, gen, readerGen, readerSnap, op>>

\* writer.add_document(tantivy_doc)?;  the writer refuses the document and
\* the function returns the error; what it staged before stays in the writer.
AddDocumentErr(t) ==
    /\ pc[t] = "add_document"
    /\ Finish(t, Err("add_document failed"))
    /\ UNCHANGED <<meta, stored, initialized, dir, staged, gen, readerGen, readerSnap,
                   op>>

\* Mutant: the commit publishes into the current generation.
CommitOkSameGen(t) ==
    /\ pc[t] = "commit"
    /\ stored' = [stored EXCEPT ![dir] = ApplyOps(stored[dir], staged)]
    /\ staged' = <<>>
    /\ gen' = gen
    /\ Finish(t, Ok({}))
    /\ UNCHANGED <<meta, initialized, dir, readerGen, readerSnap, op>>

\* Mutant: the commit publishes the operations its own call staged and
\* leaves the others staged.
CommitOkOwn(t) ==
    /\ pc[t] = "commit"
    /\ LET others == Len(staged) - Min(Len(staged), Stages(op[t]))
       IN /\ stored' = [stored EXCEPT ![dir] =
                          ApplyOps(stored[dir], SubSeq(staged, others + 1, Len(staged)))]
          /\ staged' = SubSeq(staged, 1, others)
    /\ gen' = gen + 1
    /\ Finish(t, Ok({}))
    /\ UNCHANGED <<meta, initialized, dir, readerGen, readerSnap, op>>

\* writer.commit()?; Ok(())  every staged operation is published as the next
\* generation and the writer's buffer is empty again.
CommitOk(t) ==
    /\ pc[t] = "commit"
    /\ stored' = [stored EXCEPT ![dir] = ApplyOps(stored[dir], staged)]
    /\ staged' = <<>>
    /\ gen' = gen + 1
    /\ Finish(t, Ok({}))
    /\ UNCHANGED <<meta, initialized, dir, readerGen, readerSnap, op>>

\* writer.commit()?;  the commit fails: nothing is published.
CommitErr(t) ==
    /\ pc[t] = "commit"
    /\ Finish(t, Err("commit failed"))
    /\ UNCHANGED <<meta, stored, initialized, dir, staged, gen, readerGen, readerSnap, op>>

(* ------------------------------ reads ---------------------------------- *)
\* Mutant: the reload leaves the searcher as it is.
ReloadOkStale(t) ==
    /\ pc[t] = "reload"
    /\ Goto(t, "search", 0)
    /\ UNCHANGED <<meta, stored, initialized, dir, staged, gen, readerGen, readerSnap, op>>

\* api.reader.reload()?;  the searcher is replaced by one over the latest
\* committed generation.
ReloadOk(t) ==
    /\ pc[t] = "reload"
    /\ readerSnap' = stored[dir]
    /\ readerGen' = gen
    /\ Goto(t, "search", 0)
    /\ UNCHANGED <<meta, stored, initialized, dir, staged, gen, op>>

\* api.reader.reload()?;  the reload fails and the error is returned.
ReloadErr(t) ==
    /\ pc[t] = "reload"
    /\ Finish(t, Err("reload failed"))
    /\ UNCHANGED <<meta, stored, initialized, dir, staged, gen, readerGen, readerSnap, op>>

\* The default (BM25) score of a matching document, as a rank: with the same
\* term frequency the shorter field scores higher.
Score(text, q) == IF Terms(text) \cap QueryTerms(q) = {} THEN 0 ELSE 3 - Cardinality(Terms(text))

\* TopDocs::with_limit(k) over the documents matching q: the k best scored
\* when at least k match (ties in any order), all of them otherwise.
TopDocs(content, q, k) ==
    {S \in SUBSET Matching(content, q) :
        /\ Cardinality(S) = Min(k, Cardinality(Matching(content, q)))
        /\ \A i \in S, j \in Matching(content, q) \ S :
              Score(content[i].text, q) >= Score(content[j].text, q)}

\* let query = query_parser.parse_query(&query)?;
\* let top_docs = searcher.search(&query, &TopDocs::with_limit(top_k))?;
\* ... Ok(results)
SearchOk(t) ==
    /\ pc[t] = "search"
    /\ ParseOk(op[t].query)
    /\ op[t].k >= 1
    /\ \E S \in TopDocs(readerSnap, op[t].query, op[t].k) :
          Finish(t, Ok({readerSnap[n] : n \in S}))
    /\ UNCHANGED <<meta, stored, initialized, dir, staged, gen, readerGen, readerSnap, op>>

\* The query does not parse, or the searcher fails to read: the error is returned.
SearchErr(t) ==
    /\ pc[t] = "search"
    /\ \/ ~ParseOk(op[t].query) /\ Finish(t, Err("query parse error"))
       \/ ParseOk(op[t].query) /\ op[t].k >= 1 /\ Finish(t, Err("search failed"))
    /\ UNCHANGED <<meta, stored, initialized, dir, staged, gen, readerGen, readerSnap, op>>

\* TopDocs::with_limit(0) panics ("Limit must be strictly greater than 0"),
\* after the query has parsed and while the function holds STATE's mutex.
SearchPanic(t) ==
    /\ pc[t] = "search"
    /\ ParseOk(op[t].query)
    /\ op[t].k = 0
    /\ Finish(t, Panic("panic: Limit must be strictly greater than 0"))
    /\ UNCHANGED <<meta, stored, initialized, dir, staged, gen, readerGen, readerSnap, op>>

\* Mutant: the lookup reads the latest committed generation.
LookupOkReloaded(t) ==
    /\ pc[t] = "lookup"
    /\ LET hits == WithId(stored[dir], op[t].ids[1])
       IN IF hits = {}
          THEN Finish(t, Ok({}))
          ELSE \E n \in hits : Finish(t, Ok({Document(op[t].ids[1], stored[dir][n].text)}))
    /\ UNCHANGED <<meta, stored, initialized, dir, staged, gen, readerGen, readerSnap, op>>

\* get_document_by_id after as_ref: a term query on the identifier over the
\* reader's current searcher, limited to one hit; the reader is not reloaded.
LookupOk(t) ==
    /\ pc[t] = "lookup"
    /\ LET hits == WithId(readerSnap, op[t].ids[1])
       IN IF hits = {}
          THEN Finish(t, Ok({}))
          ELSE \E n \in hits : Finish(t, Ok({Document(op[t].ids[1], readerSnap[n].text)}))
    /\ UNCHANGED <<meta, stored, initialized, dir, staged, gen, readerGen, readerSnap, op>>

\* searcher.search(..)? or searcher.doc(..)? fails in get_document_by_id.
LookupErr(t) ==
    /\ pc[t] = "lookup"
    /\ Finish(t, Err("search failed"))
    /\ UNCHANGED <<meta, stored, initialized, dir, staged, gen, readerGen, readerSnap, op>>

(* --------------------------- initialization ---------------------------- *)
\* Mutant: no early return when an instance exists.
InitCheckAlwaysOpens(t) ==
    /\ pc[t] = "init_check"
    /\ Goto(t, "init_open", 0)
    /\ UNCHANGED <<meta, stored, initialized, dir, staged, gen, readerGen, readerSnap, op>>

\* if state_lock.is_some() { return Ok(()); }
InitCheck(t) ==
    /\ pc[t] = "init_check"
    /\ IF initialized THEN Finish(t, Ok({})) ELSE Goto(t, "init_open", 0)
    /\ UNCHANGED <<meta, stored, initialized, dir, staged, gen, readerGen, readerSnap, op>>

\* The schema init_tantivy goes on with: the persisted one of an existing
\* index, the built one of a new index.
SchemaAt(d) == IF meta[d] = NoMeta THEN BuiltSchema ELSE meta[d]

\* schema.get_field("id") and schema.get_field("text") both succeed.
FieldsFound(schema) == schema.id # Absent /\ schema.text # Absent

\* create_dir_all, then Index::open_in_dir when meta.json exists and
\* Index::create_in_dir (an empty index) otherwise; both fields are found.
InitOpenOk(t) ==
    /\ pc[t] = "init_open"
    /\ FieldsFound(SchemaAt(op[t].dir))
    /\ meta' = [meta EXCEPT ![op[t].dir] = SchemaAt(op[t].dir)]
    /\ stored' = [stored EXCEPT ![op[t].dir] = IF meta[op[t].dir] # NoMeta THEN @ ELSE <<>>]
    /\ Goto(t, "init_store", 0)
    /\ UNCHANGED <<initialized, dir, staged, gen, readerGen, readerSnap, op>>

\* The index is opened and get_field("id") or get_field("text") fails:
\* "'id' field not found" or "'text' field not found".
InitFieldErr(t) ==
    /\ pc[t] = "init_open"
    /\ ~FieldsFound(SchemaAt(op[t].dir))
    /\ Finish(t, Err(IF SchemaAt(op[t].dir).id = Absent
                     THEN "'id' field not found" ELSE "'text' field not found"))
    /\ UNCHANGED <<meta, stored, initialized, dir, staged, gen, readerGen, readerSnap, op>>

\* create_dir_all, open_in_dir or create_in_dir fails.
InitOpenErr(t) ==
    /\ pc[t] = "init_open"
    /\ Finish(t, Err("open failed"))
    /\ UNCHANGED <<meta, stored, initialized, dir, staged, gen, readerGen, readerSnap, op>>

\* The writer and the reader are created (the reader loads the committed
\* generation) and *state_lock = Some(api).
InitStoreOk(t) ==
    /\ pc[t] = "init_store"
    /\ initialized' = TRUE
    /\ dir' = op[t].dir
    /\ staged' = <<>>
    /\ gen' = 0
    /\ readerGen' = 0
    /\ readerSnap' = stored[op[t].dir]
    /\ Finish(t, Ok({}))
    /\ UNCHANGED <<meta, stored, op>>

\* index.writer(..)? or the reader builder's try_into()? fails.
InitStoreErr(t) ==
    /\ pc[t] = "init_store"
    /\ Finish(t, Err("writer or reader failed"))
    /\ UNCHANGED <<meta, stored, initialized, dir, staged, gen, readerGen, readerSnap, op>>

\* Mutant: an error return keeps the writer's mutex.
ReturnKeepsWriterOnErr(t) ==
    /\ pc[t] = "return"
    /\ pc' = [pc EXCEPT ![t] = "idle"]
    /\ op' = [op EXCEPT ![t] = NoCall]
    /\ res' = [res EXCEPT ![t] = NoRes]
    /\ writerLock' = IF writerLock = t /\ res[t].ok THEN NoThread ELSE writerLock
    /\ stateLock' = IF stateLock = t
                    THEN IF Panicked(res[t]) THEN Poisoned ELSE NoThread
                    ELSE stateLock
    /\ UNCHANGED <<meta, stored, initialized, dir, staged, gen, readerGen, readerSnap, idx>>

\* Leaving the function: the guards it holds (the writer's, then STATE's) are
\* dropped and the result is handed to the caller.  A guard dropped while
\* the thread panics poisons its mutex.
Return(t) ==
    /\ pc[t] = "return"
    /\ pc' = [pc EXCEPT ![t] = "idle"]
    /\ op' = [op EXCEPT ![t] = NoCall]
    /\ res' = [res EXCEPT ![t] = NoRes]
    /\ writerLock' = IF writerLock = t THEN NoThread ELSE writerLock
    /\ stateLock' = IF stateLock = t
                    THEN IF Panicked(res[t]) THEN Poisoned ELSE NoThread
                    ELSE stateLock
    /\ UNCHANGED <<meta, stored, initialized, dir, staged, gen, readerGen, readerSnap, idx>>

(* ------------------------------ history -------------------------------- *)
\* Thread t's step is a commit that succeeded.
Committed(t) == pc[t] = "commit" /\ pc'[t] = "return" /\ res'[t].ok
AddedIds(ops) == {ops[i].id : i \in {j \in 1..Len(ops) : ops[j].kind = "add"}}

ObserveNothing(t) == UNCHANGED history

ObserveLastAdd(t) ==
    /\ UNCHANGED <<deleted, orphans, before, batch, stagedBy, log>>
    /\ lastAdd' = IF Committed(t)
               THEN IF op[t].name \in {"add_document", "update_document"}
                    THEN op[t].docs[1] ELSE NoDoc
               ELSE IF pc[t] = "idle" /\ op'[t].name \in WriteNames THEN NoDoc
               ELSE lastAdd

ObserveDeleted(t) ==
    /\ UNCHANGED <<lastAdd, orphans, before, batch, stagedBy, log>>
    /\ deleted' = IF Committed(t)
               THEN (deleted \ AddedIds(staged))
                    \cup (IF op[t].name = "delete_document" THEN {op[t].ids[1]} ELSE {})
               ELSE deleted

\* A batch whose idx-th add is refused has staged idx deletes and idx-1 adds.
ObserveOrphans(t) ==
    /\ UNCHANGED <<lastAdd, deleted, before, batch, stagedBy, log>>
    /\ orphans' = IF Committed(t) THEN {}
               ELSE IF /\ op[t].name = "add_documents_batch"
                       /\ pc[t] = "add_document" /\ pc'[t] = "return"
                    THEN orphans \cup ((Len(staged) - 2 * (idx[t] - 1))..Len(staged))
                    ELSE orphans

\* What the commit that has just succeeded started from and published, kept
\* until the committing call has returned; and which thread staged each
\* operation.
ObserveCommit(t) ==
    /\ UNCHANGED <<lastAdd, deleted, orphans, log>>
    /\ before' = IF Committed(t) THEN stored[dir]
                 ELSE IF pc[t] = "return" THEN <<>> ELSE before
    /\ batch' = IF Committed(t) THEN staged
                ELSE IF pc[t] = "return" THEN <<>> ELSE batch
    /\ stagedBy' = IF Committed(t) THEN stagedBy
                   ELSE IF pc[t] = "return" /\ batch # <<>> THEN <<>>
                   ELSE IF Len(staged') = Len(staged) + 1 THEN Append(stagedBy, t)
                   ELSE stagedBy

\* The documents of every generation published since the index was opened.
ObserveLog(t) ==
    /\ UNCHANGED <<lastAdd, deleted, orphans, before, batch, stagedBy>>
    /\ log' = IF pc[t] = "init_store" /\ initialized' THEN <<stored[dir']>>
              ELSE IF Committed(t) THEN Append(log, stored'[dir])
              ELSE log

\* The history a specification records: none, or one of these.
Observe(t, h) ==
    CASE h = "lastAdd" -> ObserveLastAdd(t)
      [] h = "deleted" -> ObserveDeleted(t)
      [] h = "orphans" -> ObserveOrphans(t)
      [] h = "commit" -> ObserveCommit(t)
      [] h = "log" -> ObserveLog(t)
      [] OTHER -> ObserveNothing(t)

(* --------------------------- specification ----------------------------- *)
\* One step of thread t, its calls drawn from C and bounded by g generations;
\* Observe(t, h) writes the history h of the step.
Step(t, C, g, h) ==
    \/ (\E c \in C : Invoke(t, c, g)) /\ Observe(t, h)
    \/ LockState(t) /\ Observe(t, h)
    \/ AsRef(t) /\ Observe(t, h)
    \/ LockWriter(t) /\ Observe(t, h)
    \/ DeleteTerm(t) /\ Observe(t, h)
    \/ AddDocumentOk(t) /\ Observe(t, h)
    \/ AddDocumentErr(t) /\ Observe(t, h)
    \/ CommitOk(t) /\ Observe(t, h)
    \/ CommitErr(t) /\ Observe(t, h)
    \/ ReloadOk(t) /\ Observe(t, h)
    \/ ReloadErr(t) /\ Observe(t, h)
    \/ SearchOk(t) /\ Observe(t, h)
    \/ SearchErr(t) /\ Observe(t, h)
    \/ LookupOk(t) /\ Observe(t, h)
    \/ LookupErr(t) /\ Observe(t, h)
    \/ InitCheck(t) /\ Observe(t, h)
    \/ InitOpenOk(t) /\ Observe(t, h)
    \/ InitOpenErr(t) /\ Observe(t, h)
    \/ InitStoreOk(t) /\ Observe(t, h)
    \/ InitStoreErr(t) /\ Observe(t, h)
    \/ Return(t) /\ Observe(t, h)

\* Calls made one after the other (every function holds STATE's mutex from
\* its first statement to its return), with every argument of the bounds.
Next == Step("t1", Calls, MaxGen, "none")

Spec == Init /\ [][Next]_vars

\* The same, recording which add_document committed last.
NextFresh == Step("t1", Calls, MaxGen, "lastAdd")

SpecFresh == Init /\ [][NextFresh]_vars

\* The same, recording the identifiers delete_document removed.
NextDeleted == Step("t1", Calls, MaxGen, "deleted")

SpecDeleted == Init /\ [][NextDeleted]_vars

\* The same, recording what failed batches left in the writer.
NextBatch == Step("t1", Calls, MaxGen, "orphans")

SpecBatch == Init /\ [][NextBatch]_vars

\* The same with top_k = 0 among the arguments, and so with the panic of
\* TopDocs::with_limit and what follows it.
CallsAnyK == Calls \cup {Call("search_documents", NoDir, <<>>, <<>>, q, 0) : q \in Queries}

StepAnyK(t, C, g, h) ==
    \/ Step(t, C, g, h)
    \/ SearchPanic(t) /\ Observe(t, h)
    \/ LockStatePoisoned(t) /\ Observe(t, h)

NextAnyK == StepAnyK("t1", CallsAnyK, MaxGen, "none")

SpecAnyK == Init /\ [][NextAnyK]_vars

\* init_tantivy alone, on every thread, directory d1 holding an index of any
\* schema.
InitCalls == {Call("init_tantivy", d, <<>>, <<>>, "", 0) : d \in Dirs}

InitAnySchema == \E schema \in Schemas : InitWith(schema)

StepInit(t) ==
    \/ (\E c \in InitCalls : Invoke(t, c, MaxGen)) /\ ObserveNothing(t)
    \/ LockState(t) /\ ObserveNothing(t)
    \/ InitCheck(t) /\ ObserveNothing(t)
    \/ InitOpenOk(t) /\ ObserveNothing(t)
    \/ InitOpenErr(t) /\ ObserveNothing(t)
    \/ InitFieldErr(t) /\ ObserveNothing(t)
    \/ InitStoreOk(t) /\ ObserveNothing(t)
    \/ InitStoreErr(t) /\ ObserveNothing(t)
    \/ Return(t) /\ ObserveNothing(t)

NextSchema == \E t \in Threads : StepInit(t)

SpecSchema == InitAnySchema /\ [][NextSchema]_vars

\* The same, recording what each successful commit started from and published.
NextCommit == Step("t1", Calls, MaxGen, "commit")

SpecCommit == Init /\ [][NextCommit]_vars

\* The same with two generations, recording the documents of each.
NextGen == Step("t1", Calls, MaxConcGen, "log")

SpecGen == Init /\ [][NextGen]_vars

\* Callers on every thread at once, one argument per function, two
\* generations so that two committing calls can be under way together.
ConcCalls ==
    {Call("init_tantivy", "d1", <<>>, <<>>, "", 0),
     Call("add_document", NoDir, <<Document("a", "hello world")>>, <<>>, "", 0),
     Call("update_document", NoDir, <<Document("a", "hello")>>, <<>>, "", 0),
     Call("add_document_no_commit", NoDir, <<Document("a", "hello world")>>, <<>>, "", 0),
     Call("delete_document", NoDir, <<>>, <<"a">>, "", 0),
     Call("delete_document_no_commit", NoDir, <<>>, <<"a">>, "", 0),
     Call("get_document_by_id", NoDir, <<>>, <<"a">>, "", 0),
     Call("add_documents_batch", NoDir, <<Document("a", "hello"), Document("a", "hello world")>>,
          <<>>, "", 0),
     Call("delete_documents_batch", NoDir, <<>>, <<"a", "b">>, "", 0),
     Call("commit", NoDir, <<>>, <<>>, "", 0),
     Call("search_documents", NoDir, <<>>, <<>>, "hello", 1)}

NextConc == \E t \in Threads : Step(t, ConcCalls, MaxConcGen, "none")

SpecConc == Init /\ [][NextConc]_vars

\* The same, recording what each successful commit started from and
\* published and which thread staged each operation.
NextConcCommit == \E t \in Threads : Step(t, ConcCalls, MaxConcGen, "commit")

SpecConcCommit == Init /\ [][NextConcCommit]_vars

\* Callers on every thread at once, the search that panics among them, under
\* a scheduler that lets a thread go on when it can again and again: a call
\* that has been invoked takes its next step, and a caller waiting for a
\* mutex that is released again and again gets it.
LiveCalls == ConcCalls \cup {Call("search_documents", NoDir, <<>>, <<>>, "hello", 0)}

NextLive == \E t \in Threads : StepAnyK(t, LiveCalls, MaxConcGen, "none")

Proceed(t) == StepAnyK(t, {}, MaxConcGen, "none")

SpecLive == Init /\ [][NextLive]_vars /\ \A t \in Threads : SF_vars(Proceed(t))

(* ------------------------------ properties ----------------------------- *)
Moved(t) == pc'[t] # pc[t] \/ idx'[t] # idx[t]
AtReturn(t, names) == pc[t] = "return" /\ op[t].name \in names
NoCommitNames == {"add_document_no_commit", "delete_document_no_commit"}
Max(S) == CHOOSE x \in S : \A y \in S : y <= x
LastIdx(ops, kind, i) ==
    LET S == {n \in 1..Len(ops) : ops[n].kind = kind /\ ops[n].id = i}
    IN IF S = {} THEN 0 ELSE Max(S)
DocsWithId(content, i) == SelectSeq(content, LAMBDA d : d.id = i)
UniqueIds(content) ==
    \A i, j \in 1..Len(content) : content[i].id = content[j].id => i = j

\* C1: no step of add_document_no_commit or delete_document_no_commit changes
\* the committed documents, the generation or the reader's snapshot (what
\* search_documents and get_document_by_id answer from); the committed
\* documents change only in a commit that succeeds, which applies the whole
\* staging buffer and empties it; the reader's snapshot only ever becomes
\* the committed documents of that moment.
C1_StagedInvisibleUntilCommit ==
    [][ /\ \A t \in Threads :
              (Moved(t) /\ op[t].name \in NoCommitNames) =>
                  /\ stored' = stored /\ gen' = gen
                  /\ readerSnap' = readerSnap /\ readerGen' = readerGen
        /\ (stored' # stored \/ gen' # gen) =>
              \E t \in Threads :
                  /\ Committed(t)
                  /\ stored' = [stored EXCEPT ![dir] = ApplyOps(stored[dir], staged)]
                  /\ staged' = <<>>
                  /\ gen' = gen + 1
        /\ (initialized /\ readerSnap' # readerSnap) =>
              readerSnap' = stored[dir] /\ readerGen' = gen
      ]_vars

\* A no-commit add has returned Ok and its document is staged, yet neither
\* the committed documents nor the reader's snapshot hold it.
C1_Witness ==
    \E t \in Threads :
        /\ AtReturn(t, {"add_document_no_commit"}) /\ res[t].ok
        /\ LastIdx(staged, "add", op[t].docs[1].id) = Len(staged)
        /\ op[t].docs[1] \notin SeqRange(stored[dir])
        /\ op[t].docs[1] \notin SeqRange(readerSnap)

\* C3: the committed documents never hold two documents with one identifier;
\* a commit leaves, for every identifier whose last staged operation is an
\* add, exactly the document of that add, and leaves the documents of an
\* identifier the staging buffer does not name as they were.
C3_UpsertUnique ==
    [][ /\ initialized' => UniqueIds(stored'[dir'])
        /\ \A t \in Threads : Committed(t) =>
              \A i \in Ids :
                  LET a == LastIdx(staged, "add", i)
                      d == LastIdx(staged, "del", i)
                  IN /\ (a > d) =>
                          DocsWithId(stored'[dir], i) = <<Document(i, staged[a].text)>>
                     /\ (a = 0 /\ d = 0) =>
                          DocsWithId(stored'[dir], i) = DocsWithId(stored[dir], i)
      ]_vars

\* A batch naming one identifier twice has committed: one document with that
\* identifier is committed, with the text of the second item.
C3_Witness ==
    \E t \in Threads :
        /\ AtReturn(t, {"add_documents_batch"}) /\ res[t].ok
        /\ Len(op[t].docs) = 2
        /\ op[t].docs[1].id = op[t].docs[2].id
        /\ op[t].docs[1].text # op[t].docs[2].text
        /\ DocsWithId(stored[dir], op[t].docs[1].id) = <<op[t].docs[2]>>
        /\ Len(stored[dir]) = 2

IdsOf(D) == {d.id : d \in D}
MatchingDocs(content, q) == {content[n] : n \in Matching(content, q)}
LookupFrom(content, i) == {Document(i, content[n].text) : n \in WithId(content, i)}
index == <<meta, stored, initialized, dir, staged, gen, readerGen, readerSnap>>

\* What every search_documents that returns Ok satisfies: the reader is at
\* the latest generation and the result is min(k, matches) of the documents
\* of that generation that match the query.
SearchIsFresh(t) ==
    /\ readerGen = gen
    /\ readerSnap = stored[dir]
    /\ res[t].val \subseteq MatchingDocs(stored[dir], op[t].query)
    /\ Cardinality(res[t].val) =
          Min(op[t].k, Cardinality(MatchingDocs(stored[dir], op[t].query)))

C4_DeleteRemoves ==
    \A t \in Threads :
        /\ (AtReturn(t, {"get_document_by_id"}) /\ res[t].ok /\ op[t].ids[1] \in deleted) =>
              res[t].val = {}
        /\ (AtReturn(t, {"search_documents"}) /\ res[t].ok) =>
              IdsOf(res[t].val) \cap deleted = {}

\* The staged add at position n is still a document after the operations
\* staged behind it.
Survives(ops, n) == \A j \in (n + 1)..Len(ops) : ~(ops[j].kind = "del" /\ ops[j].id = ops[n].id)

\* C5 as stated: a commit publishes no document that a batch call staged
\* before it failed; a batch call that succeeds leaves every item committed
\* (of items sharing an identifier, the last), every identifier of a delete
\* batch absent.
C5_BatchAtomic ==
    [][ \A t \in Threads : Committed(t) =>
          /\ \A n \in orphans : staged[n].kind = "add" => ~Survives(staged, n)
          /\ op[t].name = "add_documents_batch" =>
                \A n \in 1..Len(op[t].docs) :
                    (\A j \in (n + 1)..Len(op[t].docs) : op[t].docs[j].id # op[t].docs[n].id)
                        => op[t].docs[n] \in SeqRange(stored'[dir])
          /\ op[t].name = "delete_documents_batch" =>
                \A n \in 1..Len(op[t].ids) : WithId(stored'[dir], op[t].ids[n]) = {}
      ]_vars

Inside(t) == pc[t] \notin {"idle", "lock_state"}
Blocked(t) ==
    \/ pc[t] = "lock_state" /\ ~MutexFree(stateLock)
    \/ pc[t] = "lock_writer" /\ ~MutexFree(writerLock)

WriterPcs == {"delete_term", "add_document", "commit"}

\* C8: a caller staging or committing holds the writer's mutex, so at most
\* one caller does; and while the index is open every change of the staging
\* buffer, the committed documents or the generation is a step of the holder
\* of the writer's mutex, no other thread moving in that step.
C8_WriterMutualExclusion ==
    /\ [](\A t \in Threads : pc[t] \in WriterPcs => writerLock = t)
    /\ [][ (initialized /\ (staged' # staged \/ stored' # stored \/ gen' # gen)) =>
              /\ writerLock \in Threads
              /\ pc[writerLock] \in WriterPcs
              /\ \A u \in Threads : Moved(u) <=> u = writerLock
         ]_vars

\* A batch is between its two items while another write call waits.
C8_Witness ==
    \E t, u \in Threads :
        /\ op[t].name = "add_documents_batch" /\ pc[t] = "delete_term" /\ idx[t] = 2
        /\ writerLock = t
        /\ op[u].name \in WriteNames /\ pc[u] = "lock_state"

\* C9: while no initialization has succeeded, every step of a call other
\* than init_tantivy leaves the state uninitialized, the disk and the index
\* untouched, and what the call returns is the error "Tantivy not initialized".
C9_NotInitialized ==
    [][ \A t \in Threads :
          (Moved(t) /\ ~initialized /\ op[t].name \in WriteNames \cup ReadNames) =>
              /\ UNCHANGED index
              /\ staged' = <<>>
              /\ pc'[t] = "return" => res'[t] = Err("Tantivy not initialized")
      ]_vars

\* A batch of two documents has returned that error before initialization.
C9_Witness ==
    /\ ~initialized
    /\ \E t \in Threads :
          /\ AtReturn(t, {"add_documents_batch"})
          /\ Len(op[t].docs) = 2
          /\ res[t] = Err("Tantivy not initialized")

\* C10: every step of an init_tantivy call made while initialized leaves the
\* disk, the instance, the staging buffer, the generation and the reader's
\* snapshot unchanged, and the call returns Ok.
C10_IdempotentInit ==
    [][ \A t \in Threads :
          (Moved(t) /\ initialized /\ op[t].name = "init_tantivy") =>
              /\ UNCHANGED index
              /\ pc'[t] = "return" => res'[t] = Ok({})
      ]_vars

\* init_tantivy has returned Ok for another directory than the open one,
\* with operations staged.
C10_Witness ==
    \E t \in Threads :
        /\ AtReturn(t, {"init_tantivy"}) /\ res[t].ok
        /\ initialized /\ op[t].dir # dir
        /\ staged # <<>>

InitPcs == {"init_check", "init_open", "init_store"}

\* C11: a caller inside init_tantivy holds STATE's mutex and no other caller
\* is inside any function, so none sees the instance half built; it opens
\* the index and builds the writer and the reader only while STATE holds no
\* instance; the instance is stored only by a caller at the last statement of
\* init_tantivy, at most once, and once stored it is never replaced.
C11_InitOnce ==
    /\ [](\A t \in Threads :
            /\ pc[t] \in InitPcs => (stateLock = t /\ \A u \in Threads \ {t} : ~Inside(u))
            /\ pc[t] \in {"init_open", "init_store"} => ~initialized)
    /\ [][ /\ initialized => (initialized' /\ dir' = dir)
           /\ initialized' # initialized =>
                 \E t \in Threads : pc[t] = "init_store" /\ stateLock = t /\ Moved(t)
           /\ \A t \in Threads :
                 (pc[t] = "init_store" /\ Moved(t) /\ res'[t].ok) => ~initialized
         ]_vars

\* One caller is about to store the instance while another caller's
\* init_tantivy waits for STATE's mutex.
C11_Witness ==
    \E t, u \in Threads :
        /\ t # u
        /\ op[t].name = "init_tantivy" /\ pc[t] = "init_store"
        /\ op[u].name = "init_tantivy" /\ pc[u] = "lock_state"

\* A committing call has returned Ok: before and batch tell what its commit
\* started from and published.
CommitReturned(t) == AtReturn(t, CommitNames) /\ res[t].ok

\* C13: when a commit publishes a delete of an identifier and, staged after
\* it, an add of that identifier that nothing staged later touches, the new
\* generation holds exactly one document with the identifier, the added one.
C13_DeleteThenAdd ==
    \A t \in Threads : CommitReturned(t) =>
        \A n \in 1..Len(batch) :
            (/\ batch[n].kind = "add"
             /\ \E m \in 1..(n - 1) : batch[m].kind = "del" /\ batch[m].id = batch[n].id
             /\ \A j \in (n + 1)..Len(batch) : batch[j].id # batch[n].id)
            => DocsWithId(stored[dir], batch[n].id) = <<Document(batch[n].id, batch[n].text)>>

\* commit() has published delete_document_no_commit(b) followed by
\* add_document_no_commit(b, "hello"): b, committed before as "hello world",
\* is now "hello".
C13_Witness ==
    \E t \in Threads :
        /\ AtReturn(t, {"commit"}) /\ res[t].ok
        /\ batch = <<DelOp("b"), DelOp("b"), AddOp(Document("b", "hello"))>>
        /\ Document("b", "hello world") \in SeqRange(before)
        /\ DocsWithId(stored[dir], "b") = <<Document("b", "hello")>>

\* C14: the generation number never decreases and changes only in a commit
\* that succeeds, by one; a published generation keeps the documents it was
\* published with; the reader's searcher sees the documents of exactly one
\* published generation, whose number never decreases and is at most the
\* current one.
C14_GenerationDiscipline ==
    /\ [](initialized =>
            /\ Len(log) = gen + 1
            /\ stored[dir] = log[gen + 1]
            /\ readerGen \in 0..gen
            /\ readerSnap = log[readerGen + 1])
    /\ [][ /\ gen' >= gen
           /\ readerGen' >= readerGen
           /\ (gen' # gen \/ (initialized /\ stored'[dir] # stored[dir])) =>
                 (gen' = gen + 1 /\ \E t \in Threads : Committed(t))
           /\ \A g \in 1..Len(log) : Len(log') >= g /\ log'[g] = log[g]
         ]_vars

\* The reader still sees generation 1 after generation 2 was published with
\* other documents.
C14_Witness ==
    /\ initialized
    /\ gen = 2 /\ readerGen = 1
    /\ log[2] # log[3] /\ log[1] # log[2]
    /\ readerSnap = log[2]

\* The errors search_documents returns before it collects the top documents,
\* or when the searcher fails to read.
SearchErrors == {"Tantivy not initialized", "reload failed", "query parse error", "search failed"}

\* C15 as stated: for every top_k, 0 included, a search_documents call that
\* meets none of those errors returns Ok with min(top_k, number of matching
\* documents of the latest generation) results.
C15_TopKBound ==
    \A t \in Threads :
        (AtReturn(t, {"search_documents"}) /\ res[t].err \notin SearchErrors) =>
            /\ res[t].ok
            /\ Cardinality(res[t].val) =
                  Min(op[t].k, Cardinality(MatchingDocs(stored[dir], op[t].query)))

\* C16 as stated: init_tantivy succeeds only on a schema whose identifier
\* field is exact-match and stored and whose text field is tokenized and
\* stored, so the index of a stored instance always has that schema.
C16_SchemaChecked ==
    initialized => meta[dir] = BuiltSchema

\* C17: every staged operation is in the writer's buffer with the thread
\* that staged it until a commit succeeds; a commit that succeeds, whichever
\* committing function makes it, publishes all of them in the order they
\* were staged, whoever staged them, and leaves the buffer empty.
C17_CommitIsGlobal ==
    IF \E t \in Threads : CommitReturned(t)
    THEN /\ staged = <<>>
         /\ Len(stagedBy) = Len(batch)
         /\ stored[dir] = ApplyOps(before, batch)
    ELSE Len(stagedBy) = Len(staged)

\* A committing call has published an add another thread staged with
\* add_document_no_commit.
C17_Witness ==
    \E t \in Threads :
        /\ CommitReturned(t)
        /\ \E n \in 1..Len(batch) :
              /\ stagedBy[n] # t
              /\ batch[n].kind = "add"
              /\ Document(batch[n].id, batch[n].text) \in SeqRange(stored[dir])

\* The documents the adds of identifier i staged after position n make.
AddedAfter(ops, i, n) ==
    LET adds == SelectSeq(SubSeq(ops, n + 1, Len(ops)), LAMBDA o : o.kind = "add" /\ o.id = i)
    IN [j \in 1..Len(adds) |-> Document(adds[j].id, adds[j].text)]

\* C18: after a commit the documents of an identifier are those added after
\* the last staged delete of it, with the committed ones before them when
\* no delete of it was staged: a staged delete removes what was committed
\* or staged before it and nothing staged after it; so an add followed by a
\* delete of the same identifier leaves no document with it.
C18_StagingOrder ==
    \A t \in Threads : CommitReturned(t) =>
        \A i \in Ids :
            LET n == LastIdx(batch, "del", i)
            IN DocsWithId(stored[dir], i) =
                  (IF n = 0 THEN DocsWithId(before, i) ELSE <<>>) \o AddedAfter(batch, i, n)

\* commit() has published add_document_no_commit(a, "hello world") followed
\* by delete_document_no_commit(a): no document a is left.
C18_Witness ==
    \E t \in Threads :
        /\ AtReturn(t, {"commit"}) /\ res[t].ok
        /\ batch = <<DelOp("a"), AddOp(Document("a", "hello world")), DelOp("a")>>
        /\ DocsWithId(before, "a") # <<>>
        /\ DocsWithId(stored[dir], "a") = <<>>
        /\ DocsWithId(stored[dir], "b") = DocsWithId(before, "b")

\* The texts stored under identifier i, in document order.
TextsOf(content, i) ==
    LET ds == DocsWithId(content, i) IN [n \in 1..Len(ds) |-> ds[n].text]
SameElsewhere(i) == \A j \in Ids \ {i} : TextsOf(stored[dir], j) = TextsOf(before, j)

\* C19: when nothing was staged before the call, a successful add_document or
\* update_document of d leaves the texts of every identifier other than d.id
\* as they were in the previous generation and d.id with the text of d alone;
\* a successful delete_document(id) leaves every other identifier as it was
\* and id without a document, and leaves the whole content as it was when
\* id had no document.
C19_SingleWriteFrame ==
    \A t \in Threads :
        /\ (/\ AtReturn(t, {"add_document", "update_document"}) /\ res[t].ok
            /\ batch = <<DelOp(op[t].docs[1].id), AddOp(op[t].docs[1])>>)
           => /\ SameElsewhere(op[t].docs[1].id)
              /\ TextsOf(stored[dir], op[t].docs[1].id) = <<op[t].docs[1].text>>
        /\ (/\ AtReturn(t, {"delete_document"}) /\ res[t].ok
            /\ batch = <<DelOp(op[t].ids[1])>>)
           => /\ SameElsewhere(op[t].ids[1])
              /\ TextsOf(stored[dir], op[t].ids[1]) = <<>>
              /\ TextsOf(before, op[t].ids[1]) = <<>> => stored[dir] = before

\* delete_document(a) has returned Ok on an index that held a and b, with
\* nothing staged before it: b is still there with its text.
C19_Witness ==
    \E t \in Threads :
        /\ AtReturn(t, {"delete_document"}) /\ res[t].ok
        /\ op[t].ids[1] = "a"
        /\ batch = <<DelOp("a")>>
        /\ TextsOf(before, "a") # <<>>
        /\ TextsOf(before, "b") # <<>>
        /\ TextsOf(stored[dir], "a") = <<>>
        /\ TextsOf(stored[dir], "b") = TextsOf(before, "b")

\* Thread t waits for a mutex another thread holds.
Waiting(t) ==
    \/ pc[t] = "lock_state" /\ stateLock \in Threads
    \/ pc[t] = "lock_writer" /\ writerLock \in Threads

====
